---- MODULE Spec2Model ----
(***************************************************************************)
(* Panorama stitching (main_panoramaStitching.cpp): the size estimation,   *)
(* the per-view projection / weighting / accumulation passes, the final    *)
(* normalization sweep and the output write, as a state machine.           *)
(*                                                                         *)
(* Arithmetic is exact: a float is a reduced fraction [n, d] with d > 0.   *)
(* Angles are fractions of pi.  A weight produced by sigmoid() is a        *)
(* multiple of 1 / WOne.                                                   *)
(***************************************************************************)
EXTENDS Integers, Sequences, FiniteSets, TLC

(***************************************************************************)
(* Exact arithmetic                                                        *)
(***************************************************************************)
Abs(i) == IF i < 0 THEN -i ELSE i

Min(a, b) == IF a < b THEN a ELSE b

Max(a, b) == IF a > b THEN a ELSE b

RECURSIVE GCD(_, _)
GCD(a, b) == IF b = 0 THEN a ELSE GCD(b, a % b)

LCM(a, b) == (a \div GCD(a, b)) * b

\* the fraction n / d (d # 0), reduced, with a positive denominator
Rat(n, d) ==
  LET g == GCD(Abs(n), Abs(d))
      s == IF d < 0 THEN -1 ELSE 1
  IN  [n |-> (s * n) \div g, d |-> (s * d) \div g]

RInt(i) == [n |-> i, d |-> 1]

RZero == RInt(0)

ROne == RInt(1)

RAdd(p, q) ==
  LET l == LCM(p.d, q.d)
  IN  Rat(p.n * (l \div p.d) + q.n * (l \div q.d), l)

RNeg(p) == [n |-> -p.n, d |-> p.d]

RSub(p, q) == RAdd(p, RNeg(q))

RMul(p, q) ==
  LET g1 == GCD(Abs(p.n), q.d)
      g2 == GCD(Abs(q.n), p.d)
  IN  Rat((p.n \div g1) * (q.n \div g2), (p.d \div g2) * (q.d \div g1))

\* p / q for q # 0
RDiv(p, q) == RMul(p, Rat(q.d, q.n))

RLt(p, q) ==
  LET l == LCM(p.d, q.d)
  IN  p.n * (l \div p.d) < q.n * (l \div q.d)

RGt(p, q) == RLt(q, p)

RGe(p, q) == ~RLt(p, q)

Floor(p) == p.n \div p.d

\* conversion of a float to int: truncation toward zero
Trunc(p) == IF p.n >= 0 THEN p.n \div p.d ELSE -((-p.n) \div p.d)

\* nearest integer
Round(p) == Floor(RAdd(p, Rat(1, 2)))

\* p modulo 2, in [0, 2)
RMod2(p) == RSub(p, RInt(2 * Floor(RDiv(p, RInt(2)))))

(***************************************************************************)
(* sqrt and expf, in fixed point                                           *)
(***************************************************************************)
\* std::sqrt of a non-negative integer, to one decimal (exact on squares)
DistScale == 10

Sqrt(v) ==
  LET w == v * DistScale * DistScale
      r == CHOOSE k \in 0..(DistScale * (v + 1)) : k * k <= w /\ (k + 1) * (k + 1) > w
  IN  Rat(r, DistScale)

\* the weight 1.0 in units of a millionth
WOne == 1000000

\* round(WOne / (1 + e^k)) for k = 0..14
SigTab == <<500000, 268941, 119203, 47426, 17986, 6693, 2473, 911, 335, 123, 45, 17, 6, 2, 1>>

\* expf overflows to +inf above this exponent, and 1 / (1 + inf) is 0
ExpOverflow == 88

\* 1 / (1 + expf(k)) for an integer exponent k: below one unit and above
\* zero it is the smallest positive weight
SigOfExp(k) ==
  IF k > ExpOverflow THEN RZero
  ELSE IF k >= Len(SigTab) THEN Rat(1, WOne)
  ELSE IF k >= 0 THEN Rat(SigTab[k + 1], WOne)
  ELSE IF -k >= Len(SigTab) THEN ROne
  ELSE Rat(WOne - SigTab[(-k) + 1], WOne)

\* a NaN: every comparison with it is false
NaN == [n |-> 0, d |-> 0]

IsNaN(p) == p.d = 0

\* sigmoid(x, sigwidth, sigMid) = 1 / (1 + expf(10 * ((x - sigMid) / sigwidth)));
\* sigwidth = 0 divides by zero: -inf gives 1, +inf gives 0, 0/0 gives NaN
sigmoid(x, sigwidth, sigMid) ==
  IF sigwidth.n = 0
  THEN IF RLt(x, sigMid) THEN ROne
       ELSE IF RGt(x, sigMid) THEN RZero
       ELSE NaN
  ELSE SigOfExp(Round(RMul(RInt(10), RDiv(RSub(x, sigMid), sigwidth))))

(***************************************************************************)
(* SphericalMapping::get3DPoint: the unit vector                          *)
(* (cos lat cos lon, cos lat sin lon, sin lat), held as its two angles in  *)
(* units of pi                                                             *)
(***************************************************************************)
get3DPoint(px, py, width, height) ==
  LET x == px - width
      y == RSub(Rat(height, 2), RInt(py))
  IN  [lon |-> RMul(RInt(2), Rat(x, width)), lat |-> RDiv(y, RInt(height))]

(***************************************************************************)
(* The dataset: views in id order (sfmData.getViews() is ordered by view   *)
(* id).  A view carries its metadata, the camera it was shot with and the  *)
(* picture stored at its image path.                                       *)
(***************************************************************************)
RotatedOrientations == {"RIGHT", "LEFT", "RIGHT_REVERSED", "LEFT_REVERSED"}

\* sfmData.isPoseAndIntrinsicDefined(&view)
isPoseAndIntrinsicDefined(view) == view.valid

\* sfmData.getValidViews(): the ids (positions) of the valid views
getValidViews(views) == {i \in 1..Len(views) : isPoseAndIntrinsicDefined(views[i])}

\* *validViews.begin(): the smallest valid id
FirstValid(views) == CHOOSE i \in getValidViews(views) : \A j \in getValidViews(views) : i <= j

(***************************************************************************)
(* The camera of a view (pose and intrinsic), an external collaborator:    *)
(* it looks along longitude yaw (units of pi) and maps F pixels to pi      *)
(* radians around the centre of its picture, on the pixel lattice.         *)
(***************************************************************************)
\* the angle from the camera axis to the ray, in [0, 2)
Bearing(cam, ray) == RMod2(RSub(ray.lon, cam.yaw))

\* camPose.getTransform().depth(ray): the sign of cos(lat) * cos(bearing)
depth(cam, ray) ==
  LET u == Bearing(cam, ray)
  IN  IF Abs(ray.lat.n) * 2 = ray.lat.d THEN 0
      ELSE IF RLt(u, Rat(1, 2)) \/ RGt(u, Rat(3, 2)) THEN 1
      ELSE IF u = Rat(1, 2) \/ u = Rat(3, 2) THEN 0
      ELSE -1

\* intrinsic.project(camPose.getTransform(), ray, true): <<column, row>>
project(cam, view, ray) ==
  LET u == Bearing(cam, ray)
      a == IF RGt(u, ROne) THEN RSub(u, RInt(2)) ELSE u
  IN  << (view.width \div 2) + Floor(RMul(RInt(cam.F), a)),
         (view.height \div 2) - Floor(RMul(RInt(cam.F), ray.lat)) >>

\* image::readImage(imagePath, imageIn, LINEAR): the picture of the view
readImage(view) ==
  [Width |-> view.width, Height |-> view.height,
   pix |-> [p \in (0..(view.height - 1)) \X (0..(view.width - 1)) |->
             [r |-> (view.tone + p[2]) % 3,
              g |-> (view.tone + p[1] + 1) % 3,
              b |-> (view.tone + 2) % 3]]]

\* image::readImage throws when the picture of the view cannot be read
readImageThrows(view) == ~view.readable

\* sampler(imageIn, y, x): bilinear interpolation, which on the pixel
\* lattice is the stored pixel
sampler(img, y, x) == img.pix[<<y, x>>]

(***************************************************************************)
(* The choice of the panorama size, lines 166-205                          *)
(***************************************************************************)
\* one pass of the loop over the views, from view i on
RECURSIVE SizeLoop(_, _, _, _)
SizeLoop(views, orientation, i, ps) ==
  IF i > Len(views) THEN ps
  ELSE LET view == views[i]
       IN  IF ~isPoseAndIntrinsicDefined(view)
           THEN SizeLoop(views, orientation, i + 1, ps)
           ELSE IF orientation \in RotatedOrientations
           THEN SizeLoop(views, orientation, i + 1,
                         <<ps[1] + view.height, Max(ps[2], view.width)>>)
           ELSE SizeLoop(views, orientation, i + 1,
                         <<ps[1] + view.width, Max(ps[2], view.height)>>)

\* the orientation that classifies the views: that of the first valid view
SizeOrientation(views) == views[FirstValid(views)].orientation

\* panoramaSize before the scale factor is applied
UnscaledSize(ps, views) ==
  IF ps[1] = 0 \/ ps[2] = 0
  THEN IF ps[1] # 0 \/ ps[2] # 0
       THEN <<Max(ps[1], ps[2]), Max(ps[1], ps[2])>>
       ELSE SizeLoop(views, SizeOrientation(views), 1, <<0, ps[2]>>)
  ELSE ps

\* panoramaSize.first *= scaleFactor; panoramaSize.second *= scaleFactor
ScaledSize(ps, s) == <<Trunc(RMul(RInt(ps[1]), s)), Trunc(RMul(RInt(ps[2]), s))>>

ChoosePanoramaSize(ps, views, s) == ScaledSize(UnscaledSize(ps, views), s)

(***************************************************************************)
(* The state of main()                                                     *)
(***************************************************************************)
VARIABLES
  pc,                    \* the place reached in main()
  exit,                  \* how the process ended, "none" while it runs
  scaleFactor,           \* command line (line 79)
  panoramaSize,          \* <<first, second>> (line 80)
  sizeOption,            \* panoramaSize as main() starts with it
  fisheyeMasking,        \* line 81
  fisheyeMaskingMargin,  \* line 82
  transitionSize,        \* line 83
  sfmData,               \* the views of the input file, in id order
  allocated,             \* imageOut has been constructed (line 210)
  imageOut,              \* the panorama buffer
  viewIt,                \* the view the loop of line 212 is at
  imageIn,               \* the picture of the current view
  x,                     \* column of the pixel loops
  y,                     \* row of the pixel loops
  output,                \* what writeImage was handed
  order,                 \* the order of the view passes
  samples,               \* history: per cell, the samples added to it
  last,                  \* history: the last iteration of the pixel loop
  passWrites,            \* history: per cell, the iterations of this pass that wrote it
  normVisits,            \* history: per cell, the visits of the normalization sweep
  accCount,              \* history: the number of accumulation writes
  normAcc,               \* history: accCount when the normalization sweep began
  readCount              \* history: the number of pictures read

config == <<scaleFactor, sizeOption, fisheyeMasking, fisheyeMaskingMargin, transitionSize, sfmData, order>>

loopvars == <<viewIt, imageIn, x, y>>

history == <<samples, last, passWrites, normVisits, accCount, normAcc, readCount>>

vars == <<pc, exit, panoramaSize, allocated, imageOut, output, config, loopvars, history>>

(***************************************************************************)
(* One iteration of the pixel loop of a view pass, lines 242-284           *)
(***************************************************************************)
\* RGBAfColor(0.0f, 0.0f, 0.0f, 0.0f)
ZeroCell == [r |-> RZero, g |-> RZero, b |-> RZero, a |-> RZero]

\* the cells of a width x height image, <<row, column>>
Cells(width, height) == (0..(height - 1)) \X (0..(width - 1))

\* image::Image<RGBAfColor>(width, height, true, RGBAfColor(0, 0, 0, 0))
NewImage(width, height) ==
  [Width |-> width, Height |-> height, pix |-> [c \in Cells(width, height) |-> ZeroCell]]

NoImage == [Width |-> 0, Height |-> 0, pix |-> [c \in {} |-> ZeroCell]]

\* imageOut(y, x): row y, column x
TargetColumnZero(px, py) == <<py, 0>>

TargetCell(px, py) == <<py, px>>

\* maxRadius = min(Width, Height) * 0.5f * (1.0 - fisheyeMaskingMargin)
maxRadius(img) ==
  RMul(RMul(RInt(Min(img.Width, img.Height)), Rat(1, 2)), RSub(ROne, fisheyeMaskingMargin))

\* blurMid = maxRadius - transitionSize / 2.f
blurMid(img) == RSub(maxRadius(img), RDiv(transitionSize, RInt(2)))

\* Vec2i center(Width / 2.f, Height / 2.f)
center(img) == <<Trunc(Rat(img.Width, 2)), Trunc(Rat(img.Height, 2))>>

\* the distance of the projected pixel to the centre (line 265)
Dist(img, pix) ==
  LET dx == pix[1] - center(img)[1]
      dy == pix[2] - center(img)[2]
  IN  Sqrt(dx * dx + dy * dy)

\* pix_disto lies in [0, Width) x [0, Height) (lines 255-256, negated)
InImage(img, pix) ==
  /\ pix[1] >= 0 /\ pix[1] < img.Width
  /\ pix[2] >= 0 /\ pix[2] < img.Height

\* contribution > 0.0f
Positive(c) == ~IsNaN(c) /\ c.n > 0

\* lines 280-283
AccumulateOverwrite(cell, pixel, contribution) ==
  [r |-> RMul(RInt(pixel.r), contribution),
   g |-> RMul(RInt(pixel.g), contribution),
   b |-> RMul(RInt(pixel.b), contribution),
   a |-> contribution]

Accumulate(cell, pixel, contribution) ==
  [r |-> RAdd(cell.r, RMul(RInt(pixel.r), contribution)),
   g |-> RAdd(cell.g, RMul(RInt(pixel.g), contribution)),
   b |-> RAdd(cell.b, RMul(RInt(pixel.b), contribution)),
   a |-> RAdd(cell.a, contribution)]

\* what the iteration does: whether project() was called, whether the cell
\* was written, the sample and the weight, and the cell afterwards
Miss(cell, called) ==
  [projCalled |-> called, wrote |-> FALSE, pixel |-> [r |-> 0, g |-> 0, b |-> 0],
   contribution |-> RZero, cell |-> cell]

\* lines 262-284, once the projected pixel is known to be in the picture
Blend(img, pix, cell) ==
  LET dist == Dist(img, pix)
      contribution == IF fisheyeMasking
                      THEN sigmoid(dist, transitionSize, blurMid(img))
                      ELSE ROne
      pixel == sampler(img, pix[2], pix[1])
  IN  IF fisheyeMasking /\ RGt(dist, maxRadius(img))
      THEN Miss(cell, TRUE)
      ELSE IF Positive(contribution)
      THEN [projCalled |-> TRUE, wrote |-> TRUE, pixel |-> pixel,
            contribution |-> contribution,
            cell |-> Accumulate(cell, pixel, contribution)]
      ELSE Miss(cell, TRUE)

PixelStepNoDepthTest(view, img, px, py, width, height, cell) ==
  LET ray == get3DPoint(px, py, width, height)
      pix_disto == project(view.cam, view, ray)
  IN  IF ~InImage(img, pix_disto) THEN Miss(cell, TRUE)
      ELSE Blend(img, pix_disto, cell)

PixelStep(view, img, px, py, width, height, cell) ==
  LET ray == get3DPoint(px, py, width, height)
      pix_disto == project(view.cam, view, ray)
  IN  IF depth(view.cam, ray) < 0 THEN Miss(cell, FALSE)
      ELSE IF ~InImage(img, pix_disto) THEN Miss(cell, TRUE)
      ELSE Blend(img, pix_disto, cell)

\* pixel.a() > 0.0001f
Threshold == Rat(1, 10000)

\* lines 293-300
NormalizeResetAlpha(cell) ==
  IF RGt(cell.a, Threshold)
  THEN [r |-> RDiv(cell.r, cell.a), g |-> RDiv(cell.g, cell.a),
        b |-> RDiv(cell.b, cell.a), a |-> ROne]
  ELSE cell

NormalizeCell(cell) ==
  IF RGt(cell.a, Threshold)
  THEN [r |-> RDiv(cell.r, cell.a), g |-> RDiv(cell.g, cell.a),
        b |-> RDiv(cell.b, cell.a), a |-> cell.a]
  ELSE cell

\* the loops for(y...) for(x...) over imageOut: exhausted, and the next place
LoopDone(img, px, py) == py >= img.Height \/ img.Width <= 0

NextX(img, px, py) == IF px + 1 < img.Width THEN px + 1 ELSE 0

NextY(img, px, py) == IF px + 1 < img.Width THEN py ELSE py + 1

(***************************************************************************)
(* The inputs: the command line and the dataset                            *)
(***************************************************************************)
\* the largest number of views of a dataset
MaxViews == 2

Camera(yaw, F) == [yaw |-> yaw, F |-> F]

\* a view: valid (pose and intrinsic defined), its orientation tag, its
\* size, its camera, whether its picture can be read, and what it shows
View(valid, orientation, width, height, cam, readable, tone) ==
  [valid |-> valid, orientation |-> orientation, width |-> width, height |-> height,
   cam |-> cam, readable |-> readable, tone |-> tone]

ViewCatalogue ==
  { View(TRUE, "NONE", 2, 2, Camera(RZero, 2), TRUE, 1),
    View(TRUE, "NONE", 2, 2, Camera(Rat(1, 2), 2), TRUE, 0),
    View(TRUE, "RIGHT", 4, 2, Camera(Rat(1, 2), 4), TRUE, 2),
    View(TRUE, "NONE", 2, 2, Camera(RZero, 2), FALSE, 0),
    View(FALSE, "NONE", 4, 4, Camera(RZero, 2), TRUE, 0) }

Datasets == UNION {[1..n -> ViewCatalogue] : n \in 0..MaxViews}

\* fisheyeMasking, fisheyeMaskingMargin and transitionSize together; the
\* first is the default command line
Options ==
  { [fisheyeMasking |-> FALSE, fisheyeMaskingMargin |-> Rat(1, 20), transitionSize |-> RInt(10)],
    [fisheyeMasking |-> TRUE, fisheyeMaskingMargin |-> Rat(1, 20), transitionSize |-> RInt(10)],
    [fisheyeMasking |-> TRUE, fisheyeMaskingMargin |-> RZero, transitionSize |-> ROne],
    [fisheyeMasking |-> TRUE, fisheyeMaskingMargin |-> RZero, transitionSize |-> RZero],
    [fisheyeMasking |-> TRUE, fisheyeMaskingMargin |-> RZero, transitionSize |-> RInt(-2)] }

ScaleFactors == {Rat(1, 2), ROne}

NoLast ==
  [view |-> 0, x |-> 0, y |-> 0, projCalled |-> FALSE, wrote |-> FALSE,
   target |-> <<0, 0>>, before |-> ZeroCell, after |-> ZeroCell]

NoOutput == [written |-> FALSE, image |-> NoImage]

\* the state at the entry of main(), the inputs given
Start(opt, s, ps, views, ord) ==
  /\ pc = "parse"
  /\ exit = "none"
  /\ scaleFactor = s
  /\ panoramaSize = ps
  /\ sizeOption = ps
  /\ fisheyeMasking = opt.fisheyeMasking
  /\ fisheyeMaskingMargin = opt.fisheyeMaskingMargin
  /\ transitionSize = opt.transitionSize
  /\ sfmData = views
  /\ order = ord
  /\ allocated = FALSE
  /\ imageOut = NoImage
  /\ viewIt = 0
  /\ imageIn = NoImage
  /\ x = 0
  /\ y = 0
  /\ output = NoOutput
  /\ samples = [c \in {} |-> <<>>]
  /\ last = NoLast
  /\ passWrites = [c \in {} |-> <<>>]
  /\ normVisits = [c \in {} |-> 0]
  /\ accCount = 0
  /\ normAcc = 0
  /\ readCount = 0

\* panoramaSize is {0, 0}: the option that sets it is commented out (line 106)
Init ==
  \E opt \in Options, s \in ScaleFactors, views \in Datasets :
    Start(opt, s, <<0, 0>>, views, <<>>)

(***************************************************************************)
(* main(), step by step                                                    *)
(***************************************************************************)
Exit(code) ==
  /\ pc' = "exit"
  /\ exit' = code

\* lines 117-128: the command line parses
ParseCommandLine ==
  /\ pc = "parse"
  /\ pc' = "load"
  /\ UNCHANGED <<exit, panoramaSize, allocated, imageOut, output, config, loopvars, history>>

\* lines 129-140: a required option is missing or an option is malformed
ParseCommandLineError ==
  /\ pc = "parse"
  /\ Exit("EXIT_FAILURE")
  /\ UNCHANGED <<panoramaSize, allocated, imageOut, output, config, loopvars, history>>

\* lines 122-126: help
ShowHelp ==
  /\ pc = "parse"
  /\ Exit("EXIT_SUCCESS")
  /\ UNCHANGED <<panoramaSize, allocated, imageOut, output, config, loopvars, history>>

\* line 150: the dataset loads
LoadSfMData ==
  /\ pc = "load"
  /\ pc' = "views"
  /\ UNCHANGED <<exit, panoramaSize, allocated, imageOut, output, config, loopvars, history>>

\* lines 150-154: the dataset cannot be read
LoadSfMDataFails ==
  /\ pc = "load"
  /\ Exit("EXIT_FAILURE")
  /\ UNCHANGED <<panoramaSize, allocated, imageOut, output, config, loopvars, history>>

\* lines 156-164
CheckValidViews ==
  /\ pc = "views"
  /\ LET nbCameras == Cardinality(getValidViews(sfmData))
     IN  IF nbCameras = 0
         THEN Exit("-1")
         ELSE pc' = "size" /\ UNCHANGED exit
  /\ UNCHANGED <<panoramaSize, allocated, imageOut, output, config, loopvars, history>>

\* lines 166-207
ChooseSize ==
  /\ pc = "size"
  /\ panoramaSize' = ChoosePanoramaSize(panoramaSize, sfmData, scaleFactor)
  /\ pc' = "alloc"
  /\ UNCHANGED <<exit, allocated, imageOut, output, config, loopvars, history>>

\* line 210, and the entry of the loop of line 212
CreateBuffer ==
  /\ pc = "alloc"
  /\ imageOut' = NewImage(panoramaSize[1], panoramaSize[2])
  /\ allocated' = TRUE
  /\ viewIt' = 1
  /\ samples' = [c \in Cells(panoramaSize[1], panoramaSize[2]) |-> <<>>]
  /\ passWrites' = [c \in Cells(panoramaSize[1], panoramaSize[2]) |-> <<>>]
  /\ normVisits' = [c \in Cells(panoramaSize[1], panoramaSize[2]) |-> 0]
  /\ pc' = "loop"
  /\ UNCHANGED <<exit, panoramaSize, output, config, imageIn, x, y, last, accCount, normAcc, readCount>>

\* lines 216-217: a view without pose or intrinsic is skipped
SkipView ==
  /\ pc = "loop"
  /\ viewIt <= Len(sfmData)
  /\ ~isPoseAndIntrinsicDefined(sfmData[viewIt])
  /\ viewIt' = viewIt + 1
  /\ UNCHANGED <<pc, exit, panoramaSize, allocated, imageOut, output, config, imageIn, x, y, history>>

\* lines 219-236: the picture of the view is read; when it cannot be,
\* readImage throws and nothing catches it
ReadImageSkipUnreadable ==
  /\ pc = "loop"
  /\ viewIt <= Len(sfmData)
  /\ isPoseAndIntrinsicDefined(sfmData[viewIt])
  /\ IF ~readImageThrows(sfmData[viewIt])
     THEN /\ imageIn' = readImage(sfmData[viewIt])
          /\ x' = 0
          /\ y' = 0
          /\ readCount' = readCount + 1
          /\ passWrites' = [c \in DOMAIN passWrites |-> <<>>]
          /\ pc' = "pixels"
          /\ UNCHANGED <<exit, viewIt>>
     ELSE /\ viewIt' = viewIt + 1
          /\ UNCHANGED <<pc, exit, imageIn, x, y, readCount, passWrites>>
  /\ UNCHANGED <<panoramaSize, allocated, imageOut, output, config,
                 samples, last, normVisits, accCount, normAcc>>

ReadImage ==
  /\ pc = "loop"
  /\ viewIt <= Len(sfmData)
  /\ isPoseAndIntrinsicDefined(sfmData[viewIt])
  /\ IF ~readImageThrows(sfmData[viewIt])
     THEN /\ imageIn' = readImage(sfmData[viewIt])
          /\ x' = 0
          /\ y' = 0
          /\ readCount' = readCount + 1
          /\ passWrites' = [c \in DOMAIN passWrites |-> <<>>]
          /\ pc' = "pixels"
          /\ UNCHANGED exit
     ELSE /\ Exit("terminate")
          /\ UNCHANGED <<imageIn, x, y, readCount, passWrites>>
  /\ UNCHANGED <<panoramaSize, allocated, imageOut, output, config, viewIt,
                 samples, last, normVisits, accCount, normAcc>>

\* lines 240-285: one iteration of the pixel loops
ProjectPixel ==
  /\ pc = "pixels"
  /\ ~LoopDone(imageOut, x, y)
  /\ LET target == TargetCell(x, y)
         res == PixelStep(sfmData[viewIt], imageIn, x, y,
                          imageOut.Width, imageOut.Height, imageOut.pix[target])
     IN  /\ imageOut' = [imageOut EXCEPT !.pix[target] = res.cell]
         /\ last' = [view |-> viewIt, x |-> x, y |-> y, projCalled |-> res.projCalled,
                     wrote |-> res.wrote, target |-> target,
                     before |-> imageOut.pix[<<y, x>>], after |-> imageOut'.pix[<<y, x>>]]
         /\ IF res.wrote
            THEN /\ samples' = [samples EXCEPT ![target] =
                                  Append(@, [pixel |-> res.pixel, contribution |-> res.contribution])]
                 /\ passWrites' = [passWrites EXCEPT ![target] = Append(@, <<x, y>>)]
                 /\ accCount' = accCount + 1
            ELSE UNCHANGED <<samples, passWrites, accCount>>
  /\ x' = NextX(imageOut, x, y)
  /\ y' = NextY(imageOut, x, y)
  /\ UNCHANGED <<pc, exit, panoramaSize, allocated, output, config, viewIt, imageIn,
                 normVisits, normAcc, readCount>>

\* line 286-287: the pixel loops of the view are over
EndViewPass ==
  /\ pc = "pixels"
  /\ LoopDone(imageOut, x, y)
  /\ viewIt' = viewIt + 1
  /\ pc' = "loop"
  /\ UNCHANGED <<exit, panoramaSize, allocated, imageOut, output, config, imageIn, x, y, history>>

\* line 287 to 289: the views are exhausted, the normalization sweep begins
BeginNormalize ==
  /\ pc = "loop"
  /\ viewIt > Len(sfmData)
  /\ x' = 0
  /\ y' = 0
  /\ normAcc' = accCount
  /\ pc' = "normalize"
  /\ UNCHANGED <<exit, panoramaSize, allocated, imageOut, output, config, viewIt, imageIn,
                 samples, last, passWrites, normVisits, accCount, readCount>>

\* lines 291-301: one iteration of the normalization sweep
NormalizePixelStay ==
  /\ pc = "normalize"
  /\ ~LoopDone(imageOut, x, y)
  /\ imageOut' = [imageOut EXCEPT !.pix[<<y, x>>] = NormalizeCell(@)]
  /\ normVisits' = [normVisits EXCEPT ![<<y, x>>] = @ + 1]
  /\ x' = IF normVisits[<<y, x>>] = 0 THEN x ELSE NextX(imageOut, x, y)
  /\ y' = IF normVisits[<<y, x>>] = 0 THEN y ELSE NextY(imageOut, x, y)
  /\ UNCHANGED <<pc, exit, panoramaSize, allocated, output, config, viewIt, imageIn,
                 samples, last, passWrites, accCount, normAcc, readCount>>

NormalizePixel ==
  /\ pc = "normalize"
  /\ ~LoopDone(imageOut, x, y)
  /\ imageOut' = [imageOut EXCEPT !.pix[<<y, x>>] = NormalizeCell(@)]
  /\ normVisits' = [normVisits EXCEPT ![<<y, x>>] = @ + 1]
  /\ x' = NextX(imageOut, x, y)
  /\ y' = NextY(imageOut, x, y)
  /\ UNCHANGED <<pc, exit, panoramaSize, allocated, output, config, viewIt, imageIn,
                 samples, last, passWrites, accCount, normAcc, readCount>>

\* line 302: the sweep is over
EndNormalize ==
  /\ pc = "normalize"
  /\ LoopDone(imageOut, x, y)
  /\ pc' = "write"
  /\ UNCHANGED <<exit, panoramaSize, allocated, imageOut, output, config, loopvars, history>>

\* lines 304-306
WriteImage ==
  /\ pc = "write"
  /\ output' = [written |-> TRUE, image |-> imageOut]
  /\ Exit("EXIT_SUCCESS")
  /\ UNCHANGED <<panoramaSize, allocated, imageOut, config, loopvars, history>>

\* line 304: writeImage throws, nothing catches it
WriteImageFails ==
  /\ pc = "write"
  /\ Exit("terminate")
  /\ UNCHANGED <<panoramaSize, allocated, imageOut, output, config, loopvars, history>>

Next ==
  \/ ParseCommandLine
  \/ ParseCommandLineError
  \/ ShowHelp
  \/ LoadSfMData
  \/ LoadSfMDataFails
  \/ CheckValidViews
  \/ ChooseSize
  \/ CreateBuffer
  \/ SkipView
  \/ ReadImage
  \/ ProjectPixel
  \/ EndViewPass
  \/ BeginNormalize
  \/ NormalizePixel
  \/ EndNormalize
  \/ WriteImage
  \/ WriteImageFails

Spec == Init /\ [][Next]_vars

(***************************************************************************)
(* The choice of the panorama size as a function of panoramaSize, the      *)
(* scale factor and the views: main() up to the construction of the        *)
(* buffer, started with every value of panoramaSize that lines 166-205     *)
(* distinguish (the command line option that sets it is commented out at   *)
(* lines 106-107, so main() itself starts from {0, 0})                     *)
(***************************************************************************)
SizeCatalogue ==
  { View(TRUE, "NONE", 10, 5, Camera(RZero, 2), TRUE, 1),
    View(TRUE, "RIGHT", 4, 6, Camera(Rat(1, 2), 2), TRUE, 0),
    View(TRUE, "LEFT_REVERSED", 3, 8, Camera(Rat(1, 2), 2), TRUE, 0),
    View(TRUE, "UPSIDEDOWN", 7, 2, Camera(RZero, 2), TRUE, 2),
    View(FALSE, "NONE", 9, 9, Camera(RZero, 2), TRUE, 0) }

SizeDatasets == UNION {[1..n -> SizeCatalogue] : n \in 0..MaxViews}

SizeOptions == {<<0, 0>>, <<6, 4>>, <<5, 0>>, <<0, 3>>}

SizeScales == {Rat(1, 5), Rat(1, 2), ROne}

\* scaleFactor aside, the default command line (lines 79-83)
DefaultOptions ==
  [fisheyeMasking |-> FALSE, fisheyeMaskingMargin |-> Rat(1, 20), transitionSize |-> RInt(10)]

SizeInit ==
  \E s \in SizeScales, ps \in SizeOptions, views \in SizeDatasets :
    Start(DefaultOptions, s, ps, views, <<>>)

SizeNext ==
  \/ ParseCommandLine
  \/ LoadSfMData
  \/ CheckValidViews
  \/ ChooseSize
  \/ CreateBuffer

SpecSize == SizeInit /\ [][SizeNext]_vars

(***************************************************************************)
(* The view passes as functions of the buffer, applied in any order        *)
(***************************************************************************)
\* the pixel loops of one view (lines 238-286), from iteration (px, py) on
RECURSIVE PassFrom(_, _, _, _, _)
PassFrom(buf, view, img, px, py) ==
  IF LoopDone(buf, px, py) THEN buf
  ELSE PassFrom([buf EXCEPT !.pix[TargetCell(px, py)] =
                   PixelStep(view, img, px, py, buf.Width, buf.Height, @).cell],
                view, img, NextX(buf, px, py), NextY(buf, px, py))

\* the body of the loop of line 212 for one valid view
ViewPass(buf, view) == PassFrom(buf, view, readImage(view), 0, 0)

\* the view passes of the views ord[i], ord[i + 1], ... in turn
RECURSIVE Passes(_, _, _, _)
Passes(buf, views, ord, i) ==
  IF i > Len(ord) THEN buf
  ELSE Passes(ViewPass(buf, views[ord[i]]), views, ord, i + 1)

\* the normalization sweep (lines 289-302), from iteration (px, py) on
RECURSIVE SweepFrom(_, _, _)
SweepFrom(buf, px, py) ==
  IF LoopDone(buf, px, py) THEN buf
  ELSE SweepFrom([buf EXCEPT !.pix[<<py, px>>] = NormalizeCell(@)],
                 NextX(buf, px, py), NextY(buf, px, py))

NormalizeAll(buf) == SweepFrom(buf, 0, 0)

\* the orders of the ids of S
Perms(S) ==
  {f \in [1..Cardinality(S) -> S] : \A i, j \in 1..Cardinality(S) : f[i] = f[j] => i = j}

\* datasets whose valid views can all be read
OrderDatasets == {d \in Datasets : \A i \in 1..Len(d) : d[i].valid => d[i].readable}

OrderInit ==
  \E opt \in Options, s \in ScaleFactors, views \in OrderDatasets :
    \E ord \in Perms(getValidViews(views)) :
      Start(opt, s, <<0, 0>>, views, ord)

\* the pass of the next view of the order
OrderPass ==
  /\ pc = "loop"
  /\ viewIt <= Len(order)
  /\ imageOut' = ViewPass(imageOut, sfmData[order[viewIt]])
  /\ viewIt' = viewIt + 1
  /\ UNCHANGED <<pc, exit, panoramaSize, allocated, output, config, imageIn, x, y, history>>

\* the normalization sweep, whole
OrderNormalize ==
  /\ pc = "loop"
  /\ viewIt > Len(order)
  /\ imageOut' = NormalizeAll(imageOut)
  /\ pc' = "write"
  /\ UNCHANGED <<exit, panoramaSize, allocated, output, config, loopvars, history>>

OrderNext ==
  \/ ParseCommandLine
  \/ LoadSfMData
  \/ CheckValidViews
  \/ ChooseSize
  \/ CreateBuffer
  \/ OrderPass
  \/ OrderNormalize

SpecOrder == OrderInit /\ [][OrderNext]_vars

(***************************************************************************)
(* Properties                                                              *)
(***************************************************************************)
\* the sum of the weights of a sequence of samples
RECURSIVE SumW(_)
SumW(seq) ==
  IF seq = <<>> THEN RZero ELSE RAdd(seq[1].contribution, SumW(Tail(seq)))

\* the sum of weight * colour over a sequence of samples, for one channel
RECURSIVE SumWC(_, _)
SumWC(seq, ch) ==
  IF seq = <<>> THEN RZero
  ELSE RAdd(RMul(seq[1].contribution, RInt(seq[1].pixel[ch])), SumWC(Tail(seq), ch))

\* the normalization sweep has visited cell c
Normalized(c) == normVisits[c] > 0

\* C1: a cell whose samples (c1,w1)...(ck,wk) have a total weight above
\* 1e-4 holds, once the normalization sweep has visited it, the weighted
\* average (sum wi*ci) / (sum wi) in each colour channel and the undivided
\* sum of the weights as its alpha.
C1_WeightedAverage ==
  \A c \in DOMAIN imageOut.pix :
    (Normalized(c) /\ RGt(SumW(samples[c]), Threshold)) =>
      /\ imageOut.pix[c].r = RDiv(SumWC(samples[c], "r"), SumW(samples[c]))
      /\ imageOut.pix[c].g = RDiv(SumWC(samples[c], "g"), SumW(samples[c]))
      /\ imageOut.pix[c].b = RDiv(SumWC(samples[c], "b"), SumW(samples[c]))
      /\ imageOut.pix[c].a = SumW(samples[c])

\* a written panorama with a cell blended from two samples of different
\* colour and different weight
C1_Witness ==
  /\ output.written
  /\ \E c \in DOMAIN imageOut.pix :
       /\ Len(samples[c]) = 2
       /\ samples[c][1].pixel # samples[c][2].pixel
       /\ samples[c][1].contribution # samples[c][2].contribution
       /\ RGt(SumW(samples[c]), Threshold)
       /\ imageOut.pix[c].r # RZero

\* the states in which the normalization sweep has begun
SweepBegun == pc \in {"normalize", "write"} \/ (pc = "exit" /\ viewIt > Len(sfmData))

C2_State ==
  /\ \A c \in DOMAIN normVisits : normVisits[c] <= 1
  /\ (\E c \in DOMAIN normVisits : Normalized(c)) => SweepBegun
  /\ SweepBegun => accCount = normAcc
  /\ pc = "write" => \A c \in DOMAIN normVisits : normVisits[c] = 1
  /\ output.written =>
       /\ \A c \in DOMAIN normVisits : normVisits[c] = 1
       /\ output.image = imageOut

C2_Step ==
  /\ SweepBegun =>
       /\ samples' = samples
       /\ accCount' = accCount
       /\ \A c \in DOMAIN imageOut.pix : imageOut'.pix[c].a = imageOut.pix[c].a
  /\ (pc = "write" \/ output.written) => imageOut' = imageOut

\* C2: all accumulation writes come first, then one normalization sweep
\* that visits every cell exactly once, then the write; nothing is
\* accumulated once the sweep has begun, no cell is divided twice and the
\* buffer does not change once it is handed to writeImage.
C2_AccumulateNormalizeWrite == [](C2_State) /\ [][C2_Step]_vars

\* a panorama written after two view passes that accumulated something
C2_Witness ==
  /\ output.written
  /\ readCount >= 2
  /\ accCount >= 2
  /\ Cardinality(DOMAIN normVisits) >= 2

\* C3: after the normalization sweep every cell whose weight is not above
\* 1e-4 is all-zero.
C3_HolesAreZero ==
  \A c \in DOMAIN imageOut.pix :
    (Normalized(c) /\ ~RGt(imageOut.pix[c].a, Threshold)) => imageOut.pix[c] = ZeroCell

\* the valid views whose picture cannot be read
Unreadable == {i \in getValidViews(sfmData) : ~sfmData[i].readable}

\* C4: without a valid view the run ends with -1 before the buffer is
\* constructed; a picture that cannot be read ends the run at that view,
\* whatever was accumulated before; in both cases, and whenever the run
\* fails, nothing is written; and a run only ever ends abnormally inside
\* the loops for those reasons (or at the write), never at a pixel that
\* does not contribute.
C4_FatalErrors ==
  /\ output.written =>
       /\ exit = "EXIT_SUCCESS"
       /\ getValidViews(sfmData) # {}
       /\ Unreadable = {}
  /\ getValidViews(sfmData) = {} =>
       /\ ~allocated
       /\ pc \in {"parse", "load", "views", "exit"}
  /\ exit = "-1" => (~allocated /\ getValidViews(sfmData) = {})
  /\ \A i \in Unreadable : viewIt <= i
  /\ exit = "terminate" =>
       \/ viewIt \in Unreadable
       \/ viewIt > Len(sfmData) /\ \A c \in DOMAIN normVisits : normVisits[c] = 1
  /\ pc = "pixels" => exit = "none"

\* a run ended by an unreadable picture after an earlier view was
\* accumulated, pixels that did not contribute included
C4_Witness ==
  /\ exit = "terminate"
  /\ viewIt \in Unreadable
  /\ accCount > 0
  /\ \E c \in DOMAIN samples : samples[c] = <<>>
  /\ ~output.written

\* the loop of lines 179-200 with every view classified by its own tag
RECURSIVE PerViewSize(_, _, _)
PerViewSize(views, i, ps) ==
  IF i > Len(views) THEN ps
  ELSE LET view == views[i]
       IN  IF ~isPoseAndIntrinsicDefined(view) THEN PerViewSize(views, i + 1, ps)
           ELSE IF view.orientation \in RotatedOrientations
           THEN PerViewSize(views, i + 1, <<ps[1] + view.height, Max(ps[2], view.width)>>)
           ELSE PerViewSize(views, i + 1, <<ps[1] + view.width, Max(ps[2], view.height)>>)

\* C5: with no size override the panorama size is (trunc(s * Wsum),
\* trunc(s * Hmax)) over the valid views, each classified by its own
\* orientation tag.
C5_SizePerViewOrientation ==
  (allocated /\ sizeOption = <<0, 0>>) =>
    /\ panoramaSize = ScaledSize(PerViewSize(sfmData, 1, <<0, 0>>), scaleFactor)
    /\ imageOut.Width = panoramaSize[1]
    /\ imageOut.Height = panoramaSize[2]

C7_TransitionSizeRejected ==
  ~RGt(transitionSize, RZero) => (readCount = 0 /\ accCount = 0)

\* C8: with fisheyeMasking off, the last iteration of the pixel loop called
\* project() only if depth(ray) >= 0, changed its cell exactly when
\* depth(ray) >= 0 and the projected pixel is in the picture, and then
\* added exactly 1 to the weight of the cell.
C8_VisibilityDecidesWrite ==
  (~fisheyeMasking /\ last.view > 0) =>
    LET view == sfmData[last.view]
        ray == get3DPoint(last.x, last.y, imageOut.Width, imageOut.Height)
        visible == /\ depth(view.cam, ray) >= 0
                   /\ InImage(readImage(view), project(view.cam, view, ray))
    IN  /\ last.projCalled => depth(view.cam, ray) >= 0
        /\ (last.after # last.before) <=> visible
        /\ visible => last.after.a = RAdd(last.before.a, ROne)

\* an iteration that added a second sample to its cell, fisheyeMasking off
C8_Witness ==
  /\ ~fisheyeMasking
  /\ last.view > 0
  /\ last.wrote
  /\ last.before.a = ROne
  /\ last.after.a = RInt(2)

\* C9: within a view pass a cell is written at most once, by the iteration
\* (x, y) whose cell (y, x) it is.
C9_OneWriterPerCell ==
  \A c \in DOMAIN passWrites :
    /\ Len(passWrites[c]) <= 1
    /\ \A k \in 1..Len(passWrites[c]) : passWrites[c][k] = <<c[2], c[1]>>

\* a pass that has written two cells of a row
C9_Witness ==
  /\ pc = "pixels"
  /\ \E c, e \in DOMAIN passWrites :
       /\ c[1] = e[1]
       /\ c[2] # e[2]
       /\ Len(passWrites[c]) = 1
       /\ Len(passWrites[e]) = 1

\* the sequence of the elements of a set of ids, ascending
RECURSIVE Ascending(_)
Ascending(S) ==
  IF S = {} THEN <<>>
  ELSE LET m == CHOOSE i \in S : \A j \in S : i <= j
       IN  <<m>> \o Ascending(S \ {m})

AddCells(p, q) ==
  [r |-> RAdd(p.r, q.r), g |-> RAdd(p.g, q.g), b |-> RAdd(p.b, q.b), a |-> RAdd(p.a, q.a)]

\* the cell-wise sum of the passes of the views ord[i], ... each run alone
\* on an all-zero buffer
RECURSIVE SumPartials(_, _, _, _)
SumPartials(acc, views, ord, i) ==
  IF i > Len(ord) THEN acc
  ELSE LET part == ViewPass(NewImage(acc.Width, acc.Height), views[ord[i]])
       IN  SumPartials([acc EXCEPT !.pix = [c \in DOMAIN acc.pix |-> AddCells(acc.pix[c], part.pix[c])]],
                       views, ord, i + 1)

IdOrder == Ascending(getValidViews(sfmData))

ZeroBuffer == NewImage(imageOut.Width, imageOut.Height)

\* C10: whatever the order of the view passes, the accumulated buffer is
\* the one the passes in id order give and the cell-wise sum of the passes
\* run alone on all-zero buffers, and so is the normalized buffer.
C10_OrderIndependent ==
  /\ (pc = "loop" /\ viewIt > Len(order)) =>
       /\ imageOut = Passes(ZeroBuffer, sfmData, IdOrder, 1)
       /\ imageOut = SumPartials(ZeroBuffer, sfmData, IdOrder, 1)
  /\ pc = "write" =>
       imageOut = NormalizeAll(SumPartials(ZeroBuffer, sfmData, IdOrder, 1))

\* passes run in another order than the id order, on a cell that two
\* views of different weight reach
C10_Witness ==
  /\ pc = "loop"
  /\ viewIt > Len(order)
  /\ order # IdOrder
  /\ \E c \in DOMAIN imageOut.pix :
       /\ RGt(imageOut.pix[c].a, Passes(ZeroBuffer, sfmData, <<order[1]>>, 1).pix[c].a)
       /\ RGt(Passes(ZeroBuffer, sfmData, <<order[1]>>, 1).pix[c].a, RZero)
       /\ imageOut.pix[c].r # RZero

====
